---- MODULE Spec2Model ----
(***************************************************************************)
(* A model of the AIHabitablezone core: the entity model (Star, Planet,    *)
(* Galaxy, src/src/models.py) and the calculators (src/src/physics.py),    *)
(* and of the application around it: the global configuration              *)
(* (src/src/config.py) and the start-up sequence (src/main.py).            *)
(*                                                                         *)
(* Numbers.  The program computes with floats; the model computes with     *)
(* exact numbers in fixed units:                                           *)
(*   mass, radius, age, luminosity, activity, orbital_distance,            *)
(*   eccentricity, size, distance, metallicity, albedo,                    *)
(*   gas concentrations                 integers counting tenths           *)
(*   x, y, z, region centre and radius  parsecs                            *)
(*   temperature                        Kelvin                             *)
(*   inclination                        degrees                            *)
(*   orbital_period, time               days                               *)
(* Derived quantities are rationals [n, d] in lowest terms, and distances  *)
(* that come out of a square root are kept as coef * sqrt(rad) with coef   *)
(* and rad rational, or NaN.  Python's float division raises               *)
(* ZeroDivisionError on a zero divisor; numpy's sqrt of a negative number  *)
(* gives NaN (a RuntimeWarning, no exception).  The rounding of float      *)
(* operations is not represented.                                          *)
(*                                                                         *)
(* Specifications: Spec (the entity lifecycle with every operation),       *)
(* SpecUnit (one object from a wide range of constructor arguments),       *)
(* SpecSystem (one star and one planet under every calculator),            *)
(* SpecQuery (one galaxy, filled and queried), SpecConfig (the global      *)
(* CONFIG under load_config) and SpecMain (one run of main).               *)
(***************************************************************************)
EXTENDS Integers, Sequences, FiniteSets, TLC

VARIABLES stars, planets, galaxies, outcome, CONFIG, process

vars == <<stars, planets, galaxies, outcome, CONFIG, process>>

\* The application around the core: the global settings object and the
\* run of main().
app == <<CONFIG, process>>

\* Bounds of the entity-lifecycle specification: the number of objects
\* constructed, and the number of elements listed in all the planets and
\* stars lists together.
MaxObjects == 3
MaxAdds == 2
\* The most gases in an atmosphere.
MaxGases == 2
\* The most stars of the queried galaxy.
MaxQueryStars == 2
\* The most keys of a JSON configuration object.
MaxKeys == 2

----------------------------------------------------------------------------
(* Exact arithmetic *)

Abs(i) == IF i < 0 THEN -i ELSE i

RECURSIVE GCD(_, _)
GCD(a, b) == IF b = 0 THEN a ELSE GCD(b, a % b)

RECURSIVE Pow(_, _)
Pow(b, i) == IF i = 0 THEN 1 ELSE b * Pow(b, i - 1)

\* The rational n/d (d # 0) in lowest terms with a positive denominator.
Rat(n, d) ==
  LET g == GCD(Abs(n), Abs(d))
      s == IF d < 0 THEN -1 ELSE 1
  IN  [n |-> s * (n \div g), d |-> s * (d \div g)]

Zero == Rat(0, 1)
One == Rat(1, 1)

RAdd(p, q) == Rat(p.n * q.d + q.n * p.d, p.d * q.d)
RNeg(p) == [n |-> -p.n, d |-> p.d]
RSub(p, q) == RAdd(p, RNeg(q))
RMul(p, q) ==
  LET g1 == GCD(Abs(p.n), q.d)
      g2 == GCD(Abs(q.n), p.d)
  IN  Rat((p.n \div g1) * (q.n \div g2), (p.d \div g2) * (q.d \div g1))
\* p / q for q # 0.
RDiv(p, q) == RMul(p, Rat(q.d, q.n))

\* n1/d1 < n2/d2 for positive denominators, by comparing the continued
\* fractions: no product is formed, so large terms do not overflow.
RECURSIVE FracLess(_, _, _, _)
FracLess(n1, d1, n2, d2) ==
  LET q1 == n1 \div d1
      q2 == n2 \div d2
      r1 == n1 - q1 * d1
      r2 == n2 - q2 * d2
  IN  IF q1 # q2 THEN q1 < q2
      ELSE IF r2 = 0 THEN FALSE
      ELSE IF r1 = 0 THEN TRUE
      ELSE FracLess(d2, r2, d1, r1)

RLess(p, q) == FracLess(p.n, p.d, q.n, q.d)

\* A field stored in tenths, as a rational.
Tenths(i) == Rat(i, 10)

\* The largest r with r * r <= x, for 0 <= x < 46340 * 46340, by bisection
\* of lo..hi, where lo * lo <= x < hi * hi.
RECURSIVE ISqrtIn(_, _, _)
ISqrtIn(x, lo, hi) ==
  IF hi - lo <= 1 THEN lo
  ELSE LET mid == (lo + hi) \div 2
       IN  IF mid * mid <= x THEN ISqrtIn(x, mid, hi) ELSE ISqrtIn(x, lo, mid)
ISqrt(x) == ISqrtIn(x, 0, 46340)

\* Float values that may be NaN: coef * sqrt(rad), or NaN.
NaN == [nan |-> TRUE, coef |-> Zero, rad |-> Zero]
Surd(coef, rad) == [nan |-> FALSE, coef |-> coef, rad |-> rad]

\* numpy.sqrt of the rational x: NaN for a negative x.
NpSqrt(x) == IF x.n < 0 THEN NaN ELSE Surd(One, x)

\* v * q for a float v and a rational q: NaN stays NaN.
Scale(v, q) == IF v.nan THEN NaN ELSE Surd(RMul(v.coef, q), v.rad)

\* v < w as floats: every comparison with NaN is false.  The two values
\* carry the same coefficient (they come out of one calculation).
FloatLess(v, w) ==
  /\ ~v.nan /\ ~w.nan
  /\ v.coef = w.coef
  /\ IF v.coef.n > 0 THEN RLess(v.rad, w.rad)
     ELSE IF v.coef.n < 0 THEN RLess(w.rad, v.rad)
     ELSE FALSE

\* sqrt(rad) in thousandths, rounded to the nearest.
Milli(rad) == (ISqrt((4000000 * rad.n) \div rad.d) + 1) \div 2

----------------------------------------------------------------------------
(* Entities: src/src/models.py *)

\* Python's None for an optional reference.
None == 0

\* The DataValidationError messages, and the result of a passed validation.
Valid == "valid"

\* Faulty variant: a zero mass passes.
CelestialObject_post_init_ZeroMass(o) ==
  IF o.mass < 0 THEN "Mass must be positive"
  ELSE IF o.radius <= 0 THEN "Radius must be positive"
  ELSE IF o.age < 0 THEN "Age cannot be negative"
  ELSE Valid

CelestialObject_post_init(o) ==
  IF o.mass <= 0 THEN "Mass must be positive"
  ELSE IF o.radius <= 0 THEN "Radius must be positive"
  ELSE IF o.age < 0 THEN "Age cannot be negative"
  ELSE Valid

\* Faulty variant: an activity of exactly 1 is rejected.
Star_post_init_ActivityBelowOne(o) ==
  LET base == CelestialObject_post_init(o)
  IN  IF base # Valid THEN base
      ELSE IF o.luminosity <= 0 THEN "Luminosity must be positive"
      ELSE IF o.temperature <= 0 THEN "Temperature must be positive"
      ELSE IF ~(0 <= o.activity /\ o.activity < 10)
        THEN "Activity must be between 0 and 1"
      ELSE Valid

\* Faulty variant: the star's own checks run before the base-class checks.
Star_post_init_OwnChecksFirst(o) ==
  IF o.luminosity <= 0 THEN "Luminosity must be positive"
  ELSE IF o.temperature <= 0 THEN "Temperature must be positive"
  ELSE IF ~(0 <= o.activity /\ o.activity <= 10)
    THEN "Activity must be between 0 and 1"
  ELSE CelestialObject_post_init(o)

Star_post_init(o) ==
  LET base == CelestialObject_post_init(o)
  IN  IF base # Valid THEN base
      ELSE IF o.luminosity <= 0 THEN "Luminosity must be positive"
      ELSE IF o.temperature <= 0 THEN "Temperature must be positive"
      ELSE IF ~(0 <= o.activity /\ o.activity <= 10)
        THEN "Activity must be between 0 and 1"
      ELSE Valid

\* An atmosphere argument: a dict (its items in insertion order, gas and
\* concentration in tenths) or a value of another type.
Dict(items) == [isdict |-> TRUE, items |-> items]
NotADict == [isdict |-> FALSE, items |-> <<>>]

\* Faulty variant: an eccentricity of exactly 1 passes.
Planet_post_init_EccentricityOne(o) ==
  LET base == CelestialObject_post_init(o)
  IN  IF base # Valid THEN base
      ELSE IF o.orbital_distance <= 0 THEN "Orbital distance must be positive"
      ELSE IF ~(0 <= o.eccentricity /\ o.eccentricity <= 10)
        THEN "Eccentricity must be between 0 and 1"
      ELSE IF ~o.atmosphere.isdict
        THEN "Atmosphere must be a dictionary of compositions"
      ELSE Valid

Planet_post_init(o) ==
  LET base == CelestialObject_post_init(o)
  IN  IF base # Valid THEN base
      ELSE IF o.orbital_distance <= 0 THEN "Orbital distance must be positive"
      ELSE IF ~(0 <= o.eccentricity /\ o.eccentricity < 10)
        THEN "Eccentricity must be between 0 and 1"
      ELSE IF ~o.atmosphere.isdict
        THEN "Atmosphere must be a dictionary of compositions"
      ELSE Valid

\* Faulty variant: an age of zero passes, as it does for a Star.
Galaxy_post_init_AgeZero(o) ==
  IF o.distance < 0 THEN "Distance cannot be negative"
  ELSE IF o.size <= 0 THEN "Size must be positive"
  ELSE IF o.mass <= 0 THEN "Mass must be positive"
  ELSE IF o.age < 0 THEN "Age must be positive"
  ELSE Valid

Galaxy_post_init(o) ==
  IF o.distance < 0 THEN "Distance cannot be negative"
  ELSE IF o.size <= 0 THEN "Size must be positive"
  ELSE IF o.mass <= 0 THEN "Mass must be positive"
  ELSE IF o.age <= 0 THEN "Age must be positive"
  ELSE Valid

\* What the last call gave: the call, its arguments, how it ended
\* ("ok" or the exception's class) and the value returned or the message.
Outcome(op, args, status, value) ==
  [op |-> op, args |-> args, status |-> status, value |-> value]

NoCall == Outcome("none", <<>>, "ok", <<>>)

\* The attributes of the Config instance: data_dir, a class attribute.
DefaultConfig == [key \in {"data_dir"} |-> "project root"]

\* An exception on its way to the except clauses of main, with its cause
\* attribute; NotRaised when there is none.
Raised(class, cause) == [class |-> class, cause |-> cause]
NotRaised == Raised("None", "None")

\* main() has not been called.
NoArgs == [config |-> "None", debug |-> FALSE, no_cache |-> FALSE,
           skip_deps_check |-> FALSE]
NotStarted ==
  [pc |-> "idle", args |-> NoArgs, setup |-> "none", deps |-> "none",
   cache |-> "none", launched |-> 0, raised |-> NotRaised, status |-> "none"]

Init ==
  /\ stars = <<>>
  /\ planets = <<>>
  /\ galaxies = <<>>
  /\ outcome = NoCall
  /\ CONFIG = DefaultConfig
  /\ process = NotStarted

\* Star(...): the dataclass constructor runs __post_init__; the object
\* exists only when no check raised.  Objects are identified by their
\* position in the heap sequence.
NewStar(a) ==
  LET msg == Star_post_init(a)
  IN  IF msg # Valid
      THEN /\ outcome' = Outcome("Star", a, "DataValidationError", msg)
           /\ UNCHANGED <<stars, planets, galaxies>>
           /\ UNCHANGED app
      ELSE /\ stars' = Append(stars, a)
           /\ outcome' = Outcome("Star", a, "ok", Len(stars) + 1)
           /\ UNCHANGED <<planets, galaxies>>
           /\ UNCHANGED app

NewPlanet(a) ==
  LET msg == Planet_post_init(a)
  IN  IF msg # Valid
      THEN /\ outcome' = Outcome("Planet", a, "DataValidationError", msg)
           /\ UNCHANGED <<stars, planets, galaxies>>
           /\ UNCHANGED app
      ELSE /\ planets' = Append(planets, a)
           /\ outcome' = Outcome("Planet", a, "ok", Len(planets) + 1)
           /\ UNCHANGED <<stars, galaxies>>
           /\ UNCHANGED app

NewGalaxy(a) ==
  LET msg == Galaxy_post_init(a)
  IN  IF msg # Valid
      THEN /\ outcome' = Outcome("Galaxy", a, "DataValidationError", msg)
           /\ UNCHANGED <<stars, planets, galaxies>>
           /\ UNCHANGED app
      ELSE /\ galaxies' = Append(galaxies, a)
           /\ outcome' = Outcome("Galaxy", a, "ok", Len(galaxies) + 1)
           /\ UNCHANGED <<stars, planets>>
           /\ UNCHANGED app

\* Faulty variant: the planet's back-reference is not set.
add_planet_NoBackReference(s, p) ==
  /\ stars' = [stars EXCEPT ![s].planets = Append(@, p)]
  /\ outcome' = Outcome("add_planet", [star |-> s, planet |-> p], "ok", <<>>)
  /\ UNCHANGED <<planets, galaxies>>
  /\ UNCHANGED app

\* Faulty variant: the planet is put in front of the list.
add_planet_Prepend(s, p) ==
  /\ stars' = [stars EXCEPT ![s].planets = <<p>> \o @]
  /\ planets' = [planets EXCEPT ![p].star = s]
  /\ outcome' = Outcome("add_planet", [star |-> s, planet |-> p], "ok", <<>>)
  /\ UNCHANGED galaxies
  /\ UNCHANGED app

\* star.add_planet(planet)
add_planet(s, p) ==
  /\ stars' = [stars EXCEPT ![s].planets = Append(@, p)]
  /\ planets' = [planets EXCEPT ![p].star = s]
  /\ outcome' = Outcome("add_planet", [star |-> s, planet |-> p], "ok", <<>>)
  /\ UNCHANGED galaxies
  /\ UNCHANGED app

\* galaxy.add_star(star)
add_star(g, s) ==
  /\ galaxies' = [galaxies EXCEPT ![g].stars = Append(@, s)]
  /\ outcome' = Outcome("add_star", [galaxy |-> g, star |-> s], "ok", <<>>)
  /\ UNCHANGED <<stars, planets>>
  /\ UNCHANGED app

----------------------------------------------------------------------------
(* Habitable zone: src/src/physics.py *)

\* A float literal m * 10^e, as the source writes it (1.776e-4 is
\* Dec(1776, -7)).
Dec(m, e) == [m |-> m, e |-> e]

Boundaries ==
  {"recent_venus", "runaway_greenhouse", "moist_greenhouse",
   "maximum_greenhouse", "early_mars"}

\* HabitableZoneCalculator.__init__: self.coefficients
coefficients ==
  [recent_venus |->
     [a |-> Dec(1776, -7), b |-> Dec(2136, -7), c |-> Dec(2533, -11),
      d |-> Dec(-1332, -14), e |-> Dec(-3097, -18), s_eff |-> Dec(1776, -3)],
   runaway_greenhouse |->
     [a |-> Dec(1107, -7), b |-> Dec(1332, -7), c |-> Dec(1580, -11),
      d |-> Dec(-8308, -15), e |-> Dec(-1931, -18), s_eff |-> Dec(1107, -3)],
   moist_greenhouse |->
     [a |-> Dec(1380, -7), b |-> Dec(1685, -7), c |-> Dec(3731, -12),
      d |-> Dec(-2787, -15), e |-> Dec(-1673, -18), s_eff |-> Dec(1380, -3)],
   maximum_greenhouse |->
     [a |-> Dec(6171, -8), b |-> Dec(1698, -8), c |-> Dec(3198, -12),
      d |-> Dec(-5575, -15), e |-> Dec(-3008, -18), s_eff |-> Dec(356, -3)],
   early_mars |->
     [a |-> Dec(5547, -8), b |-> Dec(1526, -8), c |-> Dec(2874, -12),
      d |-> Dec(-5011, -15), e |-> Dec(-2695, -18), s_eff |-> Dec(320, -3)]]

\* coeff * t_star^i in units of 10^-5, for t_star = kk * 10^3 Kelvin: the
\* product is exact for every coefficient of the table.
FluxTerm(coeff, kk, i) == coeff.m * Pow(kk, i) * Pow(10, coeff.e + 3 * i + 5)

\* calculate_stellar_flux, in units of 10^-5.  The temperatures of the
\* model differ from 5780 K by whole thousands, where the polynomial is
\* evaluated exactly within TLC's integers.
calculate_stellar_flux(star_temp, coeffs) ==
  LET kk == (star_temp - 5780) \div 1000
  IN  FluxTerm(coeffs.s_eff, kk, 0) + FluxTerm(coeffs.a, kk, 1)
        + FluxTerm(coeffs.b, kk, 2) + FluxTerm(coeffs.c, kk, 3)
        + FluxTerm(coeffs.d, kk, 4) + FluxTerm(coeffs.e, kk, 5)

\* An entry of the results mapping: a single distance or an (inner, outer)
\* tuple.
Scalar(v) == [istuple |-> FALSE, v |-> v, inner |-> NaN, outer |-> NaN]
Tuple(inner, outer) == [istuple |-> TRUE, v |-> NaN, inner |-> inner, outer |-> outer]

\* Faulty variant: the classic model is left out.
HZBase_NoClassic(star) ==
  [key \in Boundaries |->
     Scalar(NpSqrt(Rat(star.luminosity * 10000,
                       calculate_stellar_flux(star.temperature,
                                              coefficients[key]))))]

\* Steps 1 and 2 of calculate_habitable_zone: the five Kopparapu distances
\* np.sqrt(star.luminosity / flux) and the classic pair.  Called only when
\* no flux is zero.
HZBase(star) ==
  [key \in Boundaries \cup {"classic"} |->
     IF key = "classic"
     THEN Tuple(NpSqrt(RDiv(Tenths(star.luminosity), Rat(11, 10))),
                NpSqrt(RDiv(Tenths(star.luminosity), Rat(53, 100))))
     ELSE Scalar(NpSqrt(Rat(star.luminosity * 10000,
                            calculate_stellar_flux(star.temperature,
                                                   coefficients[key]))))]

\* Faulty variant: the reference age is 5.0 Gyr.
age_factor_Reference5(star) ==
  RAdd(One, RMul(RSub(Tenths(star.age), Rat(50, 10)), Rat(1, 10)))

age_factor(star) == RAdd(One, RMul(RSub(Tenths(star.age), Rat(46, 10)), Rat(1, 10)))
\* Faulty variant: the activity correction is 1 - activity.
activity_factor_Full(star) == RSub(One, Tenths(star.activity))

\* Faulty variant: the activity correction reads the metallicity.
activity_factor_Metallicity(star) ==
  RSub(One, RMul(Tenths(star.metallicity), Rat(2, 10)))

activity_factor(star) == RSub(One, RMul(Tenths(star.activity), Rat(2, 10)))

\* Faulty variant: the tuple entries are left uncorrected.
HZCorrect_ScalarsOnly(results, star) ==
  [key \in DOMAIN results |->
     IF results[key].istuple
     THEN results[key]
     ELSE Scalar(Scale(results[key].v, RMul(age_factor(star), activity_factor(star))))]

\* Step 3 of calculate_habitable_zone: the corrections, applied to every
\* key of results.
HZCorrect(results, star) ==
  [key \in DOMAIN results |->
     IF results[key].istuple
     THEN Tuple(Scale(Scale(results[key].inner, age_factor(star)), activity_factor(star)),
                Scale(Scale(results[key].outer, age_factor(star)), activity_factor(star)))
     ELSE Scalar(Scale(results[key].v, RMul(age_factor(star), activity_factor(star))))]

\* An AIHabitablezoneError as raised: its message, its cause attribute
\* (the constructor's cause argument, None when not given) and the
\* exception it was raised from (raise ... from e), if any.
NoException == "None"
PhysicsError(message, chained) ==
  [message |-> message, cause |-> NoException, chained |-> chained]

\* calculate_habitable_zone(star): [status, value], value the results
\* mapping, or the PhysicsError raised.
\* star.luminosity / flux raises ZeroDivisionError for a zero flux, inside
\* the try block.
calculate_habitable_zone(star) ==
  IF \E key \in Boundaries :
       calculate_stellar_flux(star.temperature, coefficients[key]) = 0
  THEN [status |-> "PhysicsError",
        value |-> PhysicsError("Error calculating habitable zone", "ZeroDivisionError")]
  ELSE [status |-> "ok", value |-> HZCorrect(HZBase(star), star)]

\* Star.estimate_habitable_zone
estimate_habitable_zone(star) ==
  Tuple(NpSqrt(RDiv(Tenths(star.luminosity), Rat(11, 10))),
        NpSqrt(RDiv(Tenths(star.luminosity), Rat(53, 100))))

CalculateHabitableZone(s) ==
  LET r == calculate_habitable_zone(stars[s])
  IN  /\ outcome' = Outcome("calculate_habitable_zone", [star |-> s], r.status, r.value)
      /\ UNCHANGED <<stars, planets, galaxies>>
      /\ UNCHANGED app

EstimateHabitableZone(s) ==
  /\ outcome' = Outcome("estimate_habitable_zone", [star |-> s], "ok",
                        estimate_habitable_zone(stars[s]))
  /\ UNCHANGED <<stars, planets, galaxies>>
  /\ UNCHANGED app

----------------------------------------------------------------------------
(* Orbital position: Planet.calculate_orbital_position *)

\* Angles are counted in quarter turns (pi/2), where the trigonometric
\* functions are exact.
CosQ(j) == CASE j % 4 = 0 -> 1 [] j % 4 = 2 -> -1 [] OTHER -> 0
SinQ(j) == CASE j % 4 = 1 -> 1 [] j % 4 = 3 -> -1 [] OTHER -> 0

\* The times at which the model can follow the orbit of planet p exactly:
\* the mean anomaly is a whole number of quarter turns, and of half turns
\* when the orbit is eccentric (E = M + e sin M leaves the grid otherwise).
\* With orbital_period = 0 the call fails at every time.
OnGrid(p, time) ==
  IF p.orbital_period = 0 THEN TRUE
  ELSE /\ (4 * time) % p.orbital_period = 0
       /\ p.eccentricity = 0 \/ (2 * time) % p.orbital_period = 0

\* nu = 2 arctan(sqrt((1+e)/(1-e)) tan(E/2)), in quarter turns, for E in
\* quarter turns: tan(E/2) is 0 at full turns and unbounded at half turns,
\* where the positive factor sqrt((1+e)/(1-e)) changes nothing; at the odd
\* quarter turns tan(E/2) is 1 or -1 and e is 0.
TrueAnomaly(E) ==
  CASE E % 4 = 0 -> 0 [] E % 4 = 1 -> 1 [] E % 4 = 2 -> 2 [] OTHER -> -1

\* Faulty variant: n = np.pi / self.orbital_period, half the mean motion.
calculate_orbital_position_HalfMotion(p, time) ==
  IF p.orbital_period = 0
  THEN [status |-> "ZeroDivisionError", value |-> <<>>]
  ELSE
    LET inc == p.inclination \div 90
        M == (2 * time) \div p.orbital_period
        E == M + p.eccentricity * SinQ(M)
        nu == TrueAnomaly(E)
        e == Tenths(p.eccentricity)
        r == RDiv(RMul(Tenths(p.orbital_distance), RSub(One, RMul(e, e))),
                  RAdd(One, RMul(e, Rat(CosQ(nu), 1))))
        x == RMul(r, Rat(CosQ(nu), 1))
        y == RMul(RMul(r, Rat(SinQ(nu), 1)), Rat(CosQ(inc), 1))
        z == RMul(RMul(r, Rat(SinQ(nu), 1)), Rat(SinQ(inc), 1))
    IN  [status |-> "ok", value |-> <<x, y, z>>]

\* Faulty variant: r = a (1 - e) / (1 + e cos(nu)), the square forgotten.
calculate_orbital_position_NoSquare(p, time) ==
  IF p.orbital_period = 0
  THEN [status |-> "ZeroDivisionError", value |-> <<>>]
  ELSE
    LET inc == p.inclination \div 90
        M == (4 * time) \div p.orbital_period
        E == M + p.eccentricity * SinQ(M)
        nu == TrueAnomaly(E)
        e == Tenths(p.eccentricity)
        r == RDiv(RMul(Tenths(p.orbital_distance), RSub(One, e)),
                  RAdd(One, RMul(e, Rat(CosQ(nu), 1))))
        x == RMul(r, Rat(CosQ(nu), 1))
        y == RMul(RMul(r, Rat(SinQ(nu), 1)), Rat(CosQ(inc), 1))
        z == RMul(RMul(r, Rat(SinQ(nu), 1)), Rat(SinQ(inc), 1))
    IN  [status |-> "ok", value |-> <<x, y, z>>]

\* calculate_orbital_position(time): [status, value], value the (x, y, z)
\* tuple of rationals (AU).  n = 2 * np.pi / self.orbital_period is a
\* division of Python floats and raises ZeroDivisionError; the method has
\* no try block.
calculate_orbital_position(p, time) ==
  IF p.orbital_period = 0
  THEN [status |-> "ZeroDivisionError", value |-> <<>>]
  ELSE
    LET inc == p.inclination \div 90
        M == (4 * time) \div p.orbital_period
        \* E = M + e sin(M): on the grid e sin(M) is 0
        E == M + p.eccentricity * SinQ(M)
        nu == TrueAnomaly(E)
        e == Tenths(p.eccentricity)
        r == RDiv(RMul(Tenths(p.orbital_distance), RSub(One, RMul(e, e))),
                  RAdd(One, RMul(e, Rat(CosQ(nu), 1))))
        x == RMul(r, Rat(CosQ(nu), 1))
        y == RMul(RMul(r, Rat(SinQ(nu), 1)), Rat(CosQ(inc), 1))
        z == RMul(RMul(r, Rat(SinQ(nu), 1)), Rat(SinQ(inc), 1))
    IN  [status |-> "ok", value |-> <<x, y, z>>]

CalculateOrbitalPosition(p, time) ==
  LET r == calculate_orbital_position(planets[p], time)
  IN  /\ outcome' = Outcome("calculate_orbital_position",
                            [planet |-> p, time |-> time], r.status, r.value)
      /\ UNCHANGED <<stars, planets, galaxies>>
      /\ UNCHANGED app

----------------------------------------------------------------------------
(* Planet temperature, stability and dynamics: src/src/physics.py *)

\* Faulty variant: N2 weighs 0.5.
gas_factors_HeavyN2 ==
  [CO2 |-> Rat(3, 10), CH4 |-> Rat(4, 10), H2O |-> Rat(2, 10),
   N2 |-> Rat(5, 10), O2 |-> Rat(5, 100)]

\* _calculate_greenhouse_effect: gas_factors
gas_factors ==
  [CO2 |-> Rat(3, 10), CH4 |-> Rat(4, 10), H2O |-> Rat(2, 10),
   N2 |-> Rat(5, 100), O2 |-> Rat(5, 100)]

\* The loop of _calculate_greenhouse_effect over atmosphere.items(), an
\* item being <<gas, concentration>>.
RECURSIVE GreenhouseLoop(_, _)
GreenhouseLoop(items, base_factor) ==
  IF items = <<>> THEN base_factor
  ELSE LET gas == Head(items)[1]
           concentration == Tenths(Head(items)[2])
       IN  GreenhouseLoop(Tail(items),
             IF gas \in DOMAIN gas_factors
             THEN RAdd(base_factor, RMul(gas_factors[gas], concentration))
             ELSE base_factor)

\* Faulty variant: base_factor starts at 0.0.
calculate_greenhouse_effect_NoBase(atmosphere) == GreenhouseLoop(atmosphere.items, Zero)

\* HabitableZoneCalculator._calculate_greenhouse_effect(atmosphere)
calculate_greenhouse_effect(atmosphere) == GreenhouseLoop(atmosphere.items, One)

\* A temperature (K * flux * sqrt(ecc)) ** 0.25 * factor, or NaN, where
\* K = SOLAR_LUMINOSITY / (4 pi AU_TO_METERS^2 * 4 STEFAN_BOLTZMANN),
\* flux = luminosity * (1 - albedo) / orbital_distance^2 and
\* ecc = 1 / (1 - eccentricity^2).
Temperature(flux, ecc, factor) ==
  [nan |-> FALSE, flux |-> flux, ecc |-> ecc, factor |-> factor]
TemperatureNaN == [nan |-> TRUE, flux |-> Zero, ecc |-> Zero, factor |-> Zero]

\* calculate_planet_temperature(planet, star), star a Star or None:
\* star.luminosity raises AttributeError for None, inside the try block.
\* avg_flux is a numpy float (it has a factor np.sqrt(...)), so the power
\* 0.25 of a negative number is NaN.
calculate_planet_temperature(planet, star) ==
  IF star = None
  THEN [status |-> "PhysicsError",
        value |-> PhysicsError("Error calculating planet temperature",
                               "AttributeError")]
  ELSE
    LET e == Tenths(planet.eccentricity)
        flux == RDiv(RMul(Tenths(stars[star].luminosity),
                          RSub(One, Tenths(planet.albedo))),
                     RMul(Tenths(planet.orbital_distance),
                          Tenths(planet.orbital_distance)))
        ecc == RDiv(One, RSub(One, RMul(e, e)))
        greenhouse_factor ==
          IF planet.atmosphere.items # <<>>
          THEN calculate_greenhouse_effect(planet.atmosphere)
          ELSE One
    IN  [status |-> "ok",
         value |-> IF flux.n < 0 THEN TemperatureNaN
                   ELSE Temperature(flux, ecc, greenhouse_factor)]

\* coef^3 * rad: the cube of coef * (rad ** (1/3)).
Cubed(coef, rad) == RMul(RMul(RMul(coef, coef), coef), rad)

\* Faulty variant: a planet without a star is not refused, and reading
\* planet.star.mass raises AttributeError.
calculate_orbital_stability_NoCheck(planet) ==
  IF planet.star = None
  THEN [status |-> "AttributeError", value |-> <<>>]
  ELSE
    LET star == stars[planet.star]
        hill3 == Cubed(Tenths(planet.orbital_distance),
                       Rat(planet.mass, 3 * star.mass))
        roche3 == Cubed(RMul(Rat(244, 100), Tenths(star.radius)),
                        Rat(star.mass, planet.mass))
    IN  [status |-> "ok", value |-> RLess(roche3, hill3)]

\* Faulty variant: the Hill radius is taken at periapsis,
\* orbital_distance * (1 - eccentricity).
calculate_orbital_stability_Periapsis(planet) ==
  IF planet.star = None
  THEN [status |-> "PhysicsError",
        value |-> PhysicsError("Planet must be associated with a star", NoException)]
  ELSE
    LET star == stars[planet.star]
        hill3 == Cubed(RMul(Tenths(planet.orbital_distance),
                            RSub(One, Tenths(planet.eccentricity))),
                       Rat(planet.mass, 3 * star.mass))
        roche3 == Cubed(RMul(Rat(244, 100), Tenths(star.radius)),
                        Rat(star.mass, planet.mass))
    IN  [status |-> "ok", value |-> RLess(roche3, hill3)]

\* Faulty variant: hill_radius >= roche_limit.
calculate_orbital_stability_NotStrict(planet) ==
  IF planet.star = None
  THEN [status |-> "PhysicsError",
        value |-> PhysicsError("Planet must be associated with a star", NoException)]
  ELSE
    LET star == stars[planet.star]
        hill3 == Cubed(Tenths(planet.orbital_distance),
                       Rat(planet.mass, 3 * star.mass))
        roche3 == Cubed(RMul(Rat(244, 100), Tenths(star.radius)),
                        Rat(star.mass, planet.mass))
    IN  [status |-> "ok", value |-> ~RLess(hill3, roche3)]

\* calculate_orbital_stability(planet): hill_radius > roche_limit, both
\* positive, compared by their cubes.  The masses are positive, so no
\* division fails.
calculate_orbital_stability(planet) ==
  IF planet.star = None
  THEN [status |-> "PhysicsError",
        value |-> PhysicsError("Planet must be associated with a star", NoException)]
  ELSE
    LET star == stars[planet.star]
        hill3 == Cubed(Tenths(planet.orbital_distance),
                       Rat(planet.mass, 3 * star.mass))
        roche3 == Cubed(RMul(Rat(244, 100), Tenths(star.radius)),
                        Rat(star.mass, planet.mass))
    IN  [status |-> "ok", value |-> RLess(roche3, hill3)]

\* PlanetaryDynamics.calculate_escape_velocity(planet), in units of
\* sqrt(2 G EARTH_MASS / EARTH_RADIUS) m/s.  The radius is positive.
calculate_escape_velocity(planet) ==
  [status |-> "ok", value |-> NpSqrt(Rat(planet.mass, planet.radius))]

\* PlanetaryDynamics.calculate_orbital_period(planet), in units of
\* 2 pi sqrt(AU_TO_METERS^3 / (G SOLAR_MASS)) / 86400 days.
calculate_orbital_period(planet) ==
  IF planet.star = None
  THEN [status |-> "PhysicsError",
        value |-> PhysicsError("Planet must be associated with a star", NoException)]
  ELSE
    LET a == Tenths(planet.orbital_distance)
    IN  [status |-> "ok",
         value |-> NpSqrt(RDiv(RMul(RMul(a, a), a),
                               Tenths(stars[planet.star].mass)))]

CalculateGreenhouseEffect(p) ==
  /\ outcome' = Outcome("_calculate_greenhouse_effect", [planet |-> p], "ok",
                        calculate_greenhouse_effect(planets[p].atmosphere))
  /\ UNCHANGED <<stars, planets, galaxies>>
  /\ UNCHANGED app

CalculatePlanetTemperature(p, s) ==
  LET r == calculate_planet_temperature(planets[p], s)
  IN  /\ outcome' = Outcome("calculate_planet_temperature",
                            [planet |-> p, star |-> s], r.status, r.value)
      /\ UNCHANGED <<stars, planets, galaxies>>
      /\ UNCHANGED app

CalculateOrbitalStability(p) ==
  LET r == calculate_orbital_stability(planets[p])
  IN  /\ outcome' = Outcome("calculate_orbital_stability", [planet |-> p],
                            r.status, r.value)
      /\ UNCHANGED <<stars, planets, galaxies>>
      /\ UNCHANGED app

CalculateEscapeVelocity(p) ==
  LET r == calculate_escape_velocity(planets[p])
  IN  /\ outcome' = Outcome("calculate_escape_velocity", [planet |-> p],
                            r.status, r.value)
      /\ UNCHANGED <<stars, planets, galaxies>>
      /\ UNCHANGED app

CalculateOrbitalPeriod(p) ==
  LET r == calculate_orbital_period(planets[p])
  IN  /\ outcome' = Outcome("calculate_orbital_period", [planet |-> p],
                            r.status, r.value)
      /\ UNCHANGED <<stars, planets, galaxies>>
      /\ UNCHANGED app

----------------------------------------------------------------------------
(* Galaxy queries: src/src/models.py *)

\* [x for x in seq if x passes], passing the set of the objects that pass.
RECURSIVE Comprehension(_, _)
Comprehension(seq, passing) ==
  IF seq = <<>> THEN <<>>
  ELSE IF Head(seq) \in passing
       THEN <<Head(seq)>> \o Comprehension(Tail(seq), passing)
       ELSE Comprehension(Tail(seq), passing)

\* Faulty variant: the upper mass bound is exclusive.
get_habitable_stars_MassBelow(galaxy) ==
  LET Test(s) == /\ 8 <= stars[s].mass /\ stars[s].mass < 12
                 /\ stars[s].age >= 10
                 /\ -5 <= stars[s].metallicity /\ stars[s].metallicity <= 5
  IN  Comprehension(galaxy.stars, {s \in 1..Len(stars) : Test(s)})

\* Galaxy.get_habitable_stars(): mass, age and metallicity in tenths.
get_habitable_stars(galaxy) ==
  LET Test(s) == /\ 8 <= stars[s].mass /\ stars[s].mass <= 12
                 /\ stars[s].age >= 10
                 /\ -5 <= stars[s].metallicity /\ stars[s].metallicity <= 5
  IN  Comprehension(galaxy.stars, {s \in 1..Len(stars) : Test(s)})

\* v <= r for a float v = coef * sqrt(rad) with coef = 1 and an integer r.
FloatLeqInt(v, r) ==
  /\ ~v.nan
  /\ r >= 0
  /\ ~RLess(Rat(r * r, 1), v.rad)

\* sum((c - p)**2 for c, p in zip(center, (star.x, star.y, star.z)))
SquaredDistance(center, star) ==
  (center[1] - star.x) * (center[1] - star.x)
  + (center[2] - star.y) * (center[2] - star.y)
  + (center[3] - star.z) * (center[3] - star.z)

\* Faulty variant: a star at distance radius is left out.
get_stars_in_region_Inside(galaxy, center, radius) ==
  LET Test(s) ==
        LET distance == NpSqrt(Rat(SquaredDistance(center, stars[s]), 1))
        IN  FloatLeqInt(distance, radius) /\ distance.rad # Rat(radius * radius, 1)
  IN  Comprehension(galaxy.stars, {s \in 1..Len(stars) : Test(s)})

\* Galaxy.get_stars_in_region(center, radius): coordinates and radius in
\* whole parsecs.
get_stars_in_region(galaxy, center, radius) ==
  LET Test(s) ==
        FloatLeqInt(NpSqrt(Rat(SquaredDistance(center, stars[s]), 1)), radius)
  IN  Comprehension(galaxy.stars, {s \in 1..Len(stars) : Test(s)})

GetHabitableStars(g) ==
  /\ outcome' = Outcome("get_habitable_stars", [galaxy |-> g], "ok",
                        get_habitable_stars(galaxies[g]))
  /\ UNCHANGED <<stars, planets, galaxies>>
  /\ UNCHANGED app

\* Faulty variant: the galaxy's list is replaced by the filtered one.
GetStarsInRegion_InPlace(g, center, radius) ==
  /\ outcome' = Outcome("get_stars_in_region",
                        [galaxy |-> g, center |-> center, radius |-> radius],
                        "ok", get_stars_in_region(galaxies[g], center, radius))
  /\ galaxies' = [galaxies EXCEPT
                    ![g].stars = get_stars_in_region(galaxies[g], center, radius)]
  /\ UNCHANGED <<stars, planets>>
  /\ UNCHANGED app

GetStarsInRegion(g, center, radius) ==
  /\ outcome' = Outcome("get_stars_in_region",
                        [galaxy |-> g, center |-> center, radius |-> radius],
                        "ok", get_stars_in_region(galaxies[g], center, radius))
  /\ UNCHANGED <<stars, planets, galaxies>>
  /\ UNCHANGED app

----------------------------------------------------------------------------
(* The entity lifecycle: objects are constructed, planets are added to    *)
(* stars and stars to galaxies, and the calculators are called on them.   *)

SunLike ==
  [mass |-> 10, radius |-> 10, age |-> 46, luminosity |-> 10,
   temperature |-> 5780, metallicity |-> 0, activity |-> 0,
   planets |-> <<>>, x |-> 0, y |-> 0, z |-> 0]

EarthLike ==
  [mass |-> 10, radius |-> 10, age |-> 46, orbital_distance |-> 10,
   atmosphere |-> Dict(<<>>), eccentricity |-> 0, inclination |-> 0,
   albedo |-> 3, orbital_period |-> 4, star |-> None]

MilkyWay ==
  [distance |-> 0, size |-> 10, mass |-> 10, age |-> 10, stars |-> <<>>]

\* The length of all the planets and stars lists together.
RECURSIVE SumLen(_, _)
SumLen(objs, field) ==
  IF objs = <<>> THEN 0
  ELSE Len(Head(objs)[field]) + SumLen(Tail(objs), field)
Listed == SumLen(stars, "planets") + SumLen(galaxies, "stars")

\* Constructor arguments: the valid record, or one argument off.
StarArgs ==
  {[SunLike EXCEPT !.planets = ps] :
     ps \in {<<>>} \cup
            {<<p>> : p \in {q \in 1..Len(planets) : Listed < MaxAdds}}}
  \cup {[SunLike EXCEPT !.mass = 0], [SunLike EXCEPT !.radius = 0],
        [SunLike EXCEPT !.age = -1], [SunLike EXCEPT !.luminosity = 0],
        [SunLike EXCEPT !.temperature = 0], [SunLike EXCEPT !.activity = 15]}

PlanetArgs ==
  {[EarthLike EXCEPT !.star = s] : s \in {None} \cup (1..Len(stars))}
  \cup {[EarthLike EXCEPT !.mass = 0], [EarthLike EXCEPT !.radius = 0],
        [EarthLike EXCEPT !.age = -1], [EarthLike EXCEPT !.orbital_distance = 0],
        [EarthLike EXCEPT !.eccentricity = 10],
        [EarthLike EXCEPT !.atmosphere = NotADict]}

GalaxyArgs ==
  {MilkyWay, [MilkyWay EXCEPT !.distance = -1], [MilkyWay EXCEPT !.size = 0],
   [MilkyWay EXCEPT !.mass = 0], [MilkyWay EXCEPT !.age = 0]}

Times == 0..4

Objects == Len(stars) + Len(planets) + Len(galaxies)

ConstructStar == Objects < MaxObjects /\ \E a \in StarArgs : NewStar(a)
ConstructPlanet == Objects < MaxObjects /\ \E a \in PlanetArgs : NewPlanet(a)
ConstructGalaxy == Objects < MaxObjects /\ \E a \in GalaxyArgs : NewGalaxy(a)
AddPlanet ==
  Listed < MaxAdds /\ \E s \in 1..Len(stars), p \in 1..Len(planets) : add_planet(s, p)
AddStar ==
  Listed < MaxAdds /\ \E g \in 1..Len(galaxies), s \in 1..Len(stars) : add_star(g, s)
HabitableZone == \E s \in 1..Len(stars) : CalculateHabitableZone(s)
EstimateZone == \E s \in 1..Len(stars) : EstimateHabitableZone(s)
OrbitalPosition ==
  \E p \in 1..Len(planets), time \in Times :
    OnGrid(planets[p], time) /\ CalculateOrbitalPosition(p, time)
GreenhouseEffect == \E p \in 1..Len(planets) : CalculateGreenhouseEffect(p)
PlanetTemperature ==
  \E p \in 1..Len(planets), s \in {None} \cup (1..Len(stars)) :
    CalculatePlanetTemperature(p, s)
OrbitalStability == \E p \in 1..Len(planets) : CalculateOrbitalStability(p)
EscapeVelocity == \E p \in 1..Len(planets) : CalculateEscapeVelocity(p)
OrbitalPeriod == \E p \in 1..Len(planets) : CalculateOrbitalPeriod(p)
Centers == {<<0, 0, 0>>, <<3, 4, 0>>}
Radii == {-1, 0, 1, 5}
HabitableStars == \E g \in 1..Len(galaxies) : GetHabitableStars(g)
StarsInRegion ==
  \E g \in 1..Len(galaxies), center \in Centers, radius \in Radii :
    GetStarsInRegion(g, center, radius)

Next ==
  \/ ConstructStar
  \/ ConstructPlanet
  \/ ConstructGalaxy
  \/ AddPlanet
  \/ AddStar
  \/ HabitableZone
  \/ EstimateZone
  \/ OrbitalPosition
  \/ GreenhouseEffect
  \/ PlanetTemperature
  \/ OrbitalStability
  \/ EscapeVelocity
  \/ OrbitalPeriod
  \/ HabitableStars
  \/ StarsInRegion

Spec == Init /\ [][Next]_vars

----------------------------------------------------------------------------
(* One object: a single Star, Planet or Galaxy is constructed from a wide *)
(* range of arguments and the calculators are applied to it.              *)

Temperatures == {-220, 0, 780, 1780, 2780, 5780, 7780, 9780, 10780}

UnitStarArgs ==
  [mass : {-10, 0, 10}, radius : {-10, 0, 10}, age : {-10, 0, 46, 100},
   luminosity : {-10, 0, 10, 20}, temperature : Temperatures,
   metallicity : {0}, activity : {-1, 0, 5, 10, 15},
   planets : {<<>>}, x : {0}, y : {0}, z : {0}]

UnitPlanetArgs ==
  [mass : {-10, 0, 10}, radius : {0, 10}, age : {-10, 0, 46},
   orbital_distance : {-10, 0, 10, 15},
   atmosphere : {Dict(<<>>), Dict(<< <<"CO2", 10>> >>), NotADict},
   eccentricity : {-1, 0, 5, 9, 10}, inclination : {0, 90},
   albedo : {3}, orbital_period : {0, 2, 4}, star : {None}]

\* Atmospheres: up to MaxGases gases, each listed once (the keys of a dict),
\* in every insertion order; Ar is not in gas_factors.
Gases == {"CO2", "CH4", "H2O", "N2", "O2", "Ar"}
Concentrations == {0, 5, 10}
RECURSIVE AtmospheresOf(_)
AtmospheresOf(n) ==
  IF n = 0 THEN {<<>>}
  ELSE LET shorter == AtmospheresOf(n - 1)
       IN  shorter \cup
           {Append(items, <<gas, c>>) :
              items \in {i \in shorter : Len(i) = n - 1},
              gas \in Gases, c \in Concentrations}
Atmospheres ==
  {items \in AtmospheresOf(MaxGases) :
     \A i, j \in 1..Len(items) : i # j => items[i][1] # items[j][1]}

UnitAtmosphereArgs ==
  {[EarthLike EXCEPT !.atmosphere = Dict(items)] : items \in Atmospheres}

UnitGalaxyArgs ==
  [distance : {-10, 0, 10}, size : {-10, 0, 10}, mass : {-10, 0, 10},
   age : {-10, 0, 10}, stars : {<<>>}]

\* The first call constructs the object.
UnitStar == outcome = NoCall /\ \E a \in UnitStarArgs : NewStar(a)
UnitPlanet ==
  outcome = NoCall /\ \E a \in UnitPlanetArgs \cup UnitAtmosphereArgs : NewPlanet(a)
UnitGalaxy == outcome = NoCall /\ \E a \in UnitGalaxyArgs : NewGalaxy(a)

NextUnit ==
  \/ UnitStar
  \/ UnitPlanet
  \/ UnitGalaxy
  \/ HabitableZone
  \/ EstimateZone
  \/ OrbitalPosition
  \/ GreenhouseEffect

SpecUnit == Init /\ [][NextUnit]_vars

----------------------------------------------------------------------------
(* One system: a star and a planet are constructed, linked by the Planet  *)
(* constructor's star argument or by add_planet or not at all, and every  *)
(* calculator is called on them.                                          *)

SystemStarArgs ==
  {[SunLike EXCEPT !.mass = m, !.radius = r, !.luminosity = l] :
     m \in {1, 10}, r \in {10, 75}, l \in {10, 20}}

SystemPlanetArgs ==
  {[EarthLike EXCEPT !.mass = m, !.orbital_distance = d, !.eccentricity = e,
                     !.orbital_period = t, !.albedo = al,
                     !.atmosphere = Dict(at), !.star = s] :
     m \in {9, 10}, d \in {10, 61, 62}, e \in {0, 5}, t \in {0, 4},
     al \in {3, 12}, at \in {<<>>, << <<"CO2", 10>> >>},
     s \in {None} \cup (1..Len(stars))}

SystemStar == stars = <<>> /\ \E a \in SystemStarArgs : NewStar(a)
SystemPlanet ==
  stars # <<>> /\ planets = <<>> /\ \E a \in SystemPlanetArgs : NewPlanet(a)
SystemAddPlanet ==
  Listed = 0 /\ \E s \in 1..Len(stars), p \in 1..Len(planets) : add_planet(s, p)

NextSystem ==
  \/ SystemStar
  \/ SystemPlanet
  \/ SystemAddPlanet
  \/ HabitableZone
  \/ PlanetTemperature
  \/ OrbitalStability
  \/ OrbitalPosition
  \/ EscapeVelocity
  \/ OrbitalPeriod

SpecSystem == Init /\ [][NextSystem]_vars

----------------------------------------------------------------------------
(* One galaxy: stars are constructed and added to a galaxy one after the  *)
(* other, and the galaxy is queried.                                      *)

\* mass, age, metallicity, x, y, z: the star of the documentation's example
\* and stars with one field at or beyond a limit of get_habitable_stars.
QueryStarFields ==
  {<<10, 50, 0, 0, 0, 0>>, <<7, 50, 0, 3, 4, 0>>, <<8, 50, 0, 3, 4, 1>>,
   <<12, 50, 0, 3, 4, 0>>, <<13, 50, 0, 0, 0, 0>>, <<15, 50, 0, 3, 4, 1>>,
   <<10, 9, 0, 3, 4, 0>>, <<10, 10, 0, 0, 0, 0>>, <<10, 50, -6, 3, 4, 1>>,
   <<10, 50, -5, 3, 4, 0>>, <<10, 50, 5, 0, 0, 0>>, <<10, 50, 6, 3, 4, 1>>}

QueryStarArgs ==
  {[SunLike EXCEPT !.mass = v[1], !.age = v[2], !.metallicity = v[3],
                   !.x = v[4], !.y = v[5], !.z = v[6]] : v \in QueryStarFields}


QueryGalaxy == galaxies = <<>> /\ NewGalaxy(MilkyWay)
QueryStar ==
  /\ galaxies # <<>>
  /\ Len(stars) < MaxQueryStars
  /\ Len(galaxies[1].stars) = Len(stars)
  /\ \E a \in QueryStarArgs : NewStar(a)
QueryAddStar ==
  /\ galaxies # <<>>
  /\ Len(galaxies[1].stars) < Len(stars)
  /\ add_star(1, Len(galaxies[1].stars) + 1)

NextQuery ==
  \/ QueryGalaxy
  \/ QueryStar
  \/ QueryAddStar
  \/ HabitableStars
  \/ StarsInRegion

SpecQuery == Init /\ [][NextQuery]_vars

----------------------------------------------------------------------------
(* Configuration: src/src/config.py *)

\* setattr(CONFIG, key, value)
SetAttr(config, key, value) ==
  [k \in DOMAIN config \cup {key} |-> IF k = key THEN value ELSE config[k]]

\* The keys setattr refuses for a JSON value: __class__ must be set to a
\* class (TypeError).
Unsettable == {"__class__"}

\* Faulty variant: an unsettable key is skipped without an error.
RECURSIVE SetAttrLoop_Skipping(_, _)
SetAttrLoop_Skipping(config, items) ==
  IF items = <<>> THEN [status |-> "ok", config |-> config]
  ELSE IF Head(items)[1] \in Unsettable
       THEN SetAttrLoop_Skipping(config, Tail(items))
       ELSE SetAttrLoop_Skipping(SetAttr(config, Head(items)[1], Head(items)[2]),
                                 Tail(items))

\* for key, value in config_data.items(): setattr(CONFIG, key, value), in
\* both branches of the hasattr test.  The result is how the loop ended and
\* the attributes of CONFIG at that moment.
RECURSIVE SetAttrLoop(_, _)
SetAttrLoop(config, items) ==
  IF items = <<>> THEN [status |-> "ok", config |-> config]
  ELSE IF Head(items)[1] \in Unsettable
       THEN [status |-> "TypeError", config |-> config]
       ELSE SetAttrLoop(SetAttr(config, Head(items)[1], Head(items)[2]),
                        Tail(items))

\* A configuration file: one that open() refuses, one that is not JSON,
\* a JSON value that is not an object, or a JSON object (its items in
\* order).
File(kind, items) == [kind |-> kind, items |-> items]

\* ConfigurationManager.load_config(): every exception is logged and
\* re-raised; config_data.items() raises AttributeError for a JSON value
\* that is not an object.
load_config(config, file) ==
  CASE file.kind = "unreadable" -> [status |-> "OSError", config |-> config]
    [] file.kind = "malformed" -> [status |-> "JSONDecodeError", config |-> config]
    [] file.kind = "array" -> [status |-> "AttributeError", config |-> config]
    [] OTHER -> SetAttrLoop(config, file.items)

LoadConfig(file) ==
  LET r == load_config(CONFIG, file)
  IN  /\ CONFIG' = r.config
      /\ outcome' = Outcome("load_config", [file |-> file], r.status, <<>>)
      /\ UNCHANGED <<stars, planets, galaxies, process>>

ConfigKeys == {"data_dir", "theme", "__class__"}
ConfigValues == {"/data", "dark"}
RECURSIVE ObjectsOf(_)
ObjectsOf(n) ==
  IF n = 0 THEN {<<>>}
  ELSE LET shorter == ObjectsOf(n - 1)
       IN  shorter \cup
           {Append(items, <<key, value>>) :
              items \in {i \in shorter : Len(i) = n - 1},
              key \in ConfigKeys, value \in ConfigValues}
ConfigFiles ==
  {File("unreadable", <<>>), File("malformed", <<>>), File("array", <<>>)}
  \cup {File("object", items) :
          items \in {o \in ObjectsOf(MaxKeys) :
                       \A i, j \in 1..Len(o) : i # j => o[i][1] # o[j][1]}}

ConfigLoad == \E file \in ConfigFiles : LoadConfig(file)

NextConfig == ConfigLoad

SpecConfig == Init /\ [][NextConfig]_vars

----------------------------------------------------------------------------
(* Start-up: main() of src/main.py.  process.pc is the statement main is  *)
(* at; setup, deps and cache record how the steps went, launched counts   *)
(* the calls of launch_gui, raised is the exception on its way to the     *)
(* handlers and status the exit status of the process.                    *)

MainArgs ==
  [config : {"None", "config.json"}, debug : BOOLEAN, no_cache : BOOLEAN,
   skip_deps_check : BOOLEAN]

\* args = parse_arguments()
ParseArguments ==
  /\ process.pc = "idle"
  /\ \E args \in MainArgs :
       process' = [process EXCEPT !.pc = "setup_environment", !.args = args]
  /\ UNCHANGED <<stars, planets, galaxies, outcome, CONFIG>>

\* argparse ends the process with status 2 on a bad command line:
\* SystemExit passes both except clauses.
RejectArguments ==
  /\ process.pc = "idle"
  /\ process' = [process EXCEPT !.pc = "exited", !.status = "2"]
  /\ UNCHANGED <<stars, planets, galaxies, outcome, CONFIG>>

\* setup_environment(args), with the file system as it finds it: the
\* directories can be created or not, the configuration file is absent or
\* one of the files.  Every exception becomes an AIHabitablezoneError with
\* the exception as cause.
setup_environment(args, mkdir, file) ==
  IF mkdir # "ok"
  THEN [config |-> CONFIG, raised |-> Raised("AIHabitablezoneError", mkdir)]
  ELSE IF args.config # "None" /\ file.kind # "absent"
  THEN LET r == load_config(CONFIG, file)
       IN  [config |-> r.config,
            raised |-> IF r.status = "ok" THEN NotRaised
                       ELSE Raised("AIHabitablezoneError", r.status)]
  ELSE [config |-> CONFIG, raised |-> NotRaised]

\* The configuration files of the start-up: the ones with at most one key.
MainConfigFiles == {file \in ConfigFiles : Len(file.items) <= 1}

\* Faulty variant: a failed setup is logged and main goes on.
SetupEnvironment_GoesOn ==
  /\ process.pc = "setup_environment"
  /\ \E mkdir \in {"ok", "OSError"}, file \in {File("absent", <<>>)} \cup MainConfigFiles :
       LET r == setup_environment(process.args, mkdir, file)
       IN  /\ CONFIG' = r.config
           /\ process' =
                [process EXCEPT
                   !.setup = IF r.raised = NotRaised THEN "returned" ELSE "failed",
                   !.pc = IF process.args.skip_deps_check
                          THEN "data_manager" ELSE "check_dependencies"]
  /\ UNCHANGED <<stars, planets, galaxies, outcome>>

SetupEnvironment ==
  /\ process.pc = "setup_environment"
  /\ \E mkdir \in {"ok", "OSError"}, file \in {File("absent", <<>>)} \cup MainConfigFiles :
       LET r == setup_environment(process.args, mkdir, file)
       IN  /\ CONFIG' = r.config
           /\ process' =
                IF r.raised # NotRaised
                THEN [process EXCEPT !.setup = "failed", !.raised = r.raised,
                                     !.pc = "except"]
                ELSE [process EXCEPT
                        !.setup = "returned",
                        !.pc = IF process.args.skip_deps_check
                               THEN "data_manager" ELSE "check_dependencies"]
  /\ UNCHANGED <<stars, planets, galaxies, outcome>>

\* Faulty variant: missing dependencies are only logged.
CheckDependencies_WarnOnly ==
  /\ process.pc = "check_dependencies"
  /\ \E deps_ok \in BOOLEAN :
       process' = [process EXCEPT !.deps = IF deps_ok THEN "ok" ELSE "missing",
                                  !.pc = "data_manager"]
  /\ UNCHANGED <<stars, planets, galaxies, outcome, CONFIG>>

\* deps_ok, missing_deps = check_dependencies(); raise when not deps_ok
CheckDependencies ==
  /\ process.pc = "check_dependencies"
  /\ \E deps_ok \in BOOLEAN :
       process' =
         IF deps_ok
         THEN [process EXCEPT !.deps = "ok", !.pc = "data_manager"]
         ELSE [process EXCEPT !.deps = "missing",
                              !.raised = Raised("AIHabitablezoneError", "None"),
                              !.pc = "except"]
  /\ UNCHANGED <<stars, planets, galaxies, outcome, CONFIG>>

\* The data manager block: load_simulation_data() unless --no-cache; the
\* cache file is read, is absent, or reading it raises, which is logged.
InitializeDataManager ==
  /\ process.pc = "data_manager"
  /\ \E cache \in {"read", "absent", "failed"} :
       process' =
         [process EXCEPT !.cache = IF process.args.no_cache THEN "none" ELSE cache,
                         !.pc = "launch_gui"]
  /\ UNCHANGED <<stars, planets, galaxies, outcome, CONFIG>>

\* launch_gui(): returns when the window is closed, or re-raises what the
\* GUI raised.
LaunchGui ==
  /\ process.pc = "launch_gui"
  /\ \E closed \in BOOLEAN :
       process' =
         IF closed
         THEN [process EXCEPT !.launched = @ + 1, !.pc = "exited", !.status = "0"]
         ELSE [process EXCEPT !.launched = @ + 1, !.pc = "except",
                              !.raised = Raised("Exception", "None")]
  /\ UNCHANGED <<stars, planets, galaxies, outcome, CONFIG>>

\* except AIHabitablezoneError / except Exception: both log and call
\* sys.exit(1); the finally clause logs.
HandleError ==
  /\ process.pc = "except"
  /\ process' = [process EXCEPT !.pc = "exited", !.status = "1"]
  /\ UNCHANGED <<stars, planets, galaxies, outcome, CONFIG>>

NextMain ==
  \/ ParseArguments
  \/ RejectArguments
  \/ SetupEnvironment
  \/ CheckDependencies
  \/ InitializeDataManager
  \/ LaunchGui
  \/ HandleError

SpecMain == Init /\ [][NextMain]_vars

----------------------------------------------------------------------------
(* Properties *)

StarOk(s) ==
  /\ s.mass > 0 /\ s.radius > 0 /\ s.age >= 0
  /\ s.luminosity > 0 /\ s.temperature > 0
  /\ 0 <= s.activity /\ s.activity <= 10
PlanetOk(p) ==
  /\ p.mass > 0 /\ p.radius > 0 /\ p.age >= 0
  /\ p.orbital_distance > 0
  /\ 0 <= p.eccentricity /\ p.eccentricity < 10
GalaxyOk(g) == g.size > 0 /\ g.mass > 0 /\ g.age > 0 /\ g.distance >= 0

\* C1: in every state reached by constructing entities and calling
\* add_planet and add_star, every Star, Planet and Galaxy that exists
\* satisfies its construction invariants.
C1_EntitiesValid ==
  /\ \A i \in 1..Len(stars) : StarOk(stars[i])
  /\ \A i \in 1..Len(planets) : PlanetOk(planets[i])
  /\ \A i \in 1..Len(galaxies) : GalaxyOk(galaxies[i])

\* A star with a listed planet exists when a construction is rejected.
C1_Witness ==
  /\ Len(stars) >= 1 /\ Len(planets) >= 1
  /\ stars[1].planets # <<>>
  /\ outcome.status = "DataValidationError"

\* C2: Star(...) fails with a DataValidationError and yields no Star
\* exactly when mass <= 0, radius <= 0, age < 0, luminosity <= 0,
\* temperature <= 0 or activity is outside [0, 1]; otherwise it succeeds.
C2_StarConstruction ==
  outcome.op = "Star" =>
    LET a == outcome.args
    IN  IF \/ a.mass <= 0 \/ a.radius <= 0 \/ a.age < 0
           \/ a.luminosity <= 0 \/ a.temperature <= 0
           \/ a.activity < 0 \/ a.activity > 10
        THEN outcome.status = "DataValidationError" /\ stars = <<>>
        ELSE outcome.status = "ok" /\ stars = <<a>>

\* A Star with age 0 and activity 1 has been constructed.
C2_Witness ==
  /\ outcome.op = "Star" /\ outcome.status = "ok"
  /\ outcome.args.age = 0 /\ outcome.args.activity = 10
  /\ Len(stars) = 1

\* C3: Planet(...) fails with a DataValidationError and yields no Planet
\* exactly when mass <= 0, radius <= 0, age < 0, orbital_distance <= 0,
\* eccentricity is outside [0, 1) or atmosphere is no dict; otherwise it
\* succeeds.
C3_PlanetConstruction ==
  outcome.op = "Planet" =>
    LET a == outcome.args
    IN  IF \/ a.mass <= 0 \/ a.radius <= 0 \/ a.age < 0
           \/ a.orbital_distance <= 0
           \/ a.eccentricity < 0 \/ a.eccentricity >= 10
           \/ ~a.atmosphere.isdict
        THEN outcome.status = "DataValidationError" /\ planets = <<>>
        ELSE outcome.status = "ok" /\ planets = <<a>>

\* A Planet with eccentricity 1 and nothing else wrong has been rejected.
C3_Witness ==
  /\ outcome.op = "Planet" /\ outcome.status = "DataValidationError"
  /\ outcome.args.eccentricity = 10
  /\ Planet_post_init([outcome.args EXCEPT !.eccentricity = 0]) = Valid

\* C4: Galaxy(...) fails with a DataValidationError exactly when
\* distance < 0, size <= 0, mass <= 0 or age <= 0: distance 0 is accepted
\* and age 0 is rejected.
C4_GalaxyConstruction ==
  outcome.op = "Galaxy" =>
    LET a == outcome.args
    IN  IF a.distance < 0 \/ a.size <= 0 \/ a.mass <= 0 \/ a.age <= 0
        THEN outcome.status = "DataValidationError" /\ galaxies = <<>>
        ELSE outcome.status = "ok" /\ galaxies = <<a>>

\* A Galaxy at distance 0 with age 0 and nothing else wrong has been
\* rejected.
C4_Witness ==
  /\ outcome.op = "Galaxy" /\ outcome.status = "DataValidationError"
  /\ outcome.args.distance = 0 /\ outcome.args.age = 0
  /\ outcome.args.size > 0 /\ outcome.args.mass > 0

AtTimeZero ==
  outcome.op = "calculate_orbital_position" /\ outcome.args.time = 0

\* C5, as claimed: for every valid Planet, whatever its eccentricity and
\* inclination, the position calculate_orbital_position returns at time 0
\* is (orbital_distance, 0, 0).
C5_AsClaimed ==
  (AtTimeZero /\ outcome.status = "ok") =>
    outcome.value =
      <<Tenths(planets[outcome.args.planet].orbital_distance), Zero, Zero>>

\* C5, amended: at time 0 calculate_orbital_position returns the periapsis
\* (orbital_distance * (1 - eccentricity), 0, 0) whatever the inclination,
\* which is (orbital_distance, 0, 0) only for eccentricity 0; with
\* orbital_period = 0 it raises ZeroDivisionError instead.
C5_PeriapsisAtTimeZero ==
  AtTimeZero =>
    LET p == planets[outcome.args.planet]
    IN  IF p.orbital_period = 0
        THEN outcome.status = "ZeroDivisionError"
        ELSE /\ outcome.status = "ok"
             /\ outcome.value =
                  <<Rat(p.orbital_distance * (10 - p.eccentricity), 100),
                    Zero, Zero>>

\* The position at time 0 of an inclined planet on an eccentric orbit.
C5_Witness ==
  /\ AtTimeZero /\ outcome.status = "ok"
  /\ planets[outcome.args.planet].eccentricity = 5
  /\ planets[outcome.args.planet].inclination = 90

ZoneReturned ==
  outcome.op = "calculate_habitable_zone" /\ outcome.status = "ok"

\* C6: for every valid Star with age 4.6 and activity 0 the mapping
\* calculate_habitable_zone returns has classic inner < classic outer and
\* runaway_greenhouse < maximum_greenhouse.
C6_InnerBelowOuter ==
  (/\ ZoneReturned
   /\ stars[outcome.args.star].age = 46
   /\ stars[outcome.args.star].activity = 0) =>
    /\ FloatLess(outcome.value["classic"].inner, outcome.value["classic"].outer)
    /\ FloatLess(outcome.value["runaway_greenhouse"].v,
                 outcome.value["maximum_greenhouse"].v)

\* C7: when the flux polynomial of one of the five models is zero or
\* negative at the star's temperature, calculate_habitable_zone ends with
\* a PhysicsError and returns no mapping.
C7_NonPositiveFluxRaises ==
  (/\ outcome.op = "calculate_habitable_zone"
   /\ \E key \in Boundaries :
        calculate_stellar_flux(stars[outcome.args.star].temperature,
                               coefficients[key]) <= 0) =>
    outcome.status = "PhysicsError"

\* C8: every mapping calculate_habitable_zone returns has exactly the six
\* keys; the five empirical entries are single distances and the classic
\* entry is a pair.
C8_SixKeys ==
  ZoneReturned =>
    /\ DOMAIN outcome.value =
         {"recent_venus", "runaway_greenhouse", "moist_greenhouse",
          "maximum_greenhouse", "early_mars", "classic"}
    /\ \A key \in DOMAIN outcome.value :
         outcome.value[key].istuple <=> key = "classic"

\* A mapping has been returned for a star at the solar temperature.
C8_Witness ==
  ZoneReturned /\ stars[outcome.args.star].temperature = 5780

\* C9: every entry calculate_habitable_zone returns is its uncorrected
\* base value times age_factor times activity_factor, both components of
\* the classic pair included, with age_factor = 1 + (age - 4.6) * 0.1 and
\* activity_factor = 1 - activity * 0.2.
C9_CorrectedOnce ==
  ZoneReturned =>
    LET star == stars[outcome.args.star]
        base == HZBase(star)
        af == Rat(100 + (star.age - 46), 100)
        cf == Rat(100 - 2 * star.activity, 100)
        Corrected(v) == Scale(Scale(v, af), cf)
    IN  \A key \in DOMAIN base :
          /\ key \in DOMAIN outcome.value
          /\ IF key = "classic"
             THEN /\ outcome.value[key].inner = Corrected(base[key].inner)
                  /\ outcome.value[key].outer = Corrected(base[key].outer)
             ELSE outcome.value[key].v = Corrected(base[key].v)

\* A mapping has been returned for an old, active star: both factors
\* differ from 1.
C9_Witness ==
  /\ ZoneReturned
  /\ stars[outcome.args.star].age = 100
  /\ stars[outcome.args.star].activity = 5
  /\ ~outcome.value["runaway_greenhouse"].v.nan

\* C10: for a star with age 4.6 and activity 0 the classic entry is
\* (sqrt(luminosity / 1.1), sqrt(luminosity / 0.53)), the pair
\* estimate_habitable_zone returns; for luminosity 1 that is (0.953, 1.374)
\* to three decimals.
C10_ClassicPair ==
  (/\ ZoneReturned
   /\ stars[outcome.args.star].age = 46
   /\ stars[outcome.args.star].activity = 0) =>
    LET star == stars[outcome.args.star]
        classic == outcome.value["classic"]
    IN  /\ classic.inner = Surd(One, Rat(star.luminosity * 10, 110))
        /\ classic.outer = Surd(One, Rat(star.luminosity * 10, 53))
        /\ classic = estimate_habitable_zone(star)
        /\ star.luminosity = 10 =>
             Milli(classic.inner.rad) = 953 /\ Milli(classic.outer.rad) = 1374

\* The mapping of the Sun-like star has been returned.
C10_Witness ==
  /\ ZoneReturned
  /\ stars[outcome.args.star].age = 46
  /\ stars[outcome.args.star].activity = 0
  /\ stars[outcome.args.star].luminosity = 10
  /\ stars[outcome.args.star].temperature = 5780

\* The contribution of one gas to the greenhouse factor: weight times its
\* concentration, nothing when the gas is not in the atmosphere.
Share(items, gas, weight) ==
  IF \E i \in 1..Len(items) : items[i][1] = gas
  THEN RMul(weight, Tenths((CHOOSE item \in {items[i] : i \in 1..Len(items)} :
                              item[1] = gas)[2]))
  ELSE Zero

GreenhouseReturned == outcome.op = "_calculate_greenhouse_effect"

\* C11: the greenhouse factor is 1.0 plus weight times concentration for
\* every gas of the atmosphere that is in the table (CO2 0.3, CH4 0.4,
\* H2O 0.2, N2 0.05, O2 0.05); other gases add nothing and the order of the
\* gases does not matter: 1.0 for an empty atmosphere, 1.3 for {CO2: 1.0}.
C11_GreenhouseFactor ==
  GreenhouseReturned =>
    LET items == planets[outcome.args.planet].atmosphere.items
    IN  /\ outcome.status = "ok"
        /\ outcome.value =
             RAdd(One,
               RAdd(Share(items, "CO2", Rat(3, 10)),
                 RAdd(Share(items, "CH4", Rat(4, 10)),
                   RAdd(Share(items, "H2O", Rat(2, 10)),
                     RAdd(Share(items, "N2", Rat(5, 100)),
                          Share(items, "O2", Rat(5, 100)))))))
        /\ items = <<>> => outcome.value = One
        /\ items = << <<"CO2", 10>> >> => outcome.value = Rat(13, 10)

\* Two gases, N2 listed after a gas that is not in the table.
C11_Witness ==
  /\ GreenhouseReturned
  /\ planets[outcome.args.planet].atmosphere.items = << <<"Ar", 10>>, <<"N2", 5>> >>
  /\ outcome.value = Rat(41, 40)

\* The heap: everything but the record of the last call.
heap == <<stars, planets, galaxies>>

\* C12: calculate_orbital_stability and calculate_orbital_period, called on
\* a planet whose star is None, end with a PhysicsError, return no value
\* and change nothing.
C12_NoStarRaises ==
  [][(/\ outcome'.op \in {"calculate_orbital_stability", "calculate_orbital_period"}
      /\ planets[outcome'.args.planet].star = None)
     => /\ outcome'.status = "PhysicsError"
        /\ outcome'.value.message = "Planet must be associated with a star"
        /\ heap' = heap]_vars

C12_Witness ==
  /\ outcome.op = "calculate_orbital_stability"
  /\ planets[outcome.args.planet].star = None
  /\ outcome.status = "PhysicsError"

StabilityReturned ==
  outcome.op = "calculate_orbital_stability" /\ outcome.status = "ok"

\* C13: calculate_orbital_stability returns true exactly when the Hill
\* radius orbital_distance * (planet mass / (3 * star mass))^(1/3) is
\* strictly greater than the Roche limit 2.44 * star radius *
\* (star mass / planet mass)^(1/3), the fields taken as they are; that is,
\* when (orbital_distance / star radius)^3 * (planet mass / star mass)^2
\* exceeds 3 * 2.44^3 = 680943/15625.  Equal values give false.
C13_HillAboveRoche ==
  StabilityReturned =>
    LET planet == planets[outcome.args.planet]
        star == stars[planet.star]
        distances == Rat(planet.orbital_distance, star.radius)
        masses == Rat(planet.mass, star.mass)
        ratio == RMul(RMul(RMul(distances, distances), distances),
                      RMul(masses, masses))
    IN  outcome.value = RLess(Rat(680943, 15625), ratio)

\* Hill radius and Roche limit are equal: 6.1 AU, 0.9 Earth masses around
\* a star of 7.5 solar radii and 0.1 solar masses.
C13_Witness ==
  /\ StabilityReturned
  /\ planets[outcome.args.planet].orbital_distance = 61
  /\ planets[outcome.args.planet].mass = 9
  /\ stars[planets[outcome.args.planet].star].radius = 75
  /\ stars[planets[outcome.args.planet].star].mass = 1
  /\ outcome.value = FALSE

Calculators ==
  {"calculate_habitable_zone", "calculate_planet_temperature",
   "calculate_orbital_stability", "calculate_orbital_position",
   "calculate_escape_velocity", "calculate_orbital_period"}

\* C14: a calculator called on objects accepted by the constructors
\* returns or raises PhysicsError: no exception of another type escapes.
C14_OnlyPhysicsError ==
  outcome.op \in Calculators => outcome.status \in {"ok", "PhysicsError"}

\* A PhysicsError raised from an underlying exception.
Wrapped ==
  /\ outcome.op \in {"calculate_habitable_zone", "calculate_planet_temperature"}
  /\ outcome.status = "PhysicsError"
  /\ outcome.value.chained # NoException

\* C15: a PhysicsError that calculate_habitable_zone or
\* calculate_planet_temperature raises because of an underlying exception
\* has that exception as its cause attribute, which is never empty.
C15_CausePreserved ==
  Wrapped => /\ outcome.value.cause # NoException
             /\ outcome.value.cause = outcome.value.chained

Habitable(s) ==
  /\ stars[s].mass \in 8..12
  /\ stars[s].age >= 10
  /\ stars[s].metallicity \in -5..5

\* C16: get_habitable_stars returns exactly the stars of galaxy.stars with
\* 0.8 <= mass <= 1.2, age >= 1.0 and -0.5 <= metallicity <= 0.5, in the
\* order of galaxy.stars, and modifies nothing; a star of mass 1.5 is
\* excluded and one of mass 1.0, age 5.0, metallicity 0.0 is included.
C16_HabitableStars ==
  [][outcome'.op = "get_habitable_stars" =>
       LET listed == galaxies[outcome'.args.galaxy].stars
           returned == {outcome'.value[i] : i \in 1..Len(outcome'.value)}
       IN  /\ outcome'.status = "ok"
           /\ outcome'.value = SelectSeq(listed, Habitable)
           /\ \A i \in 1..Len(listed) :
                /\ stars[listed[i]].mass = 15 => listed[i] \notin returned
                /\ (/\ stars[listed[i]].mass = 10
                    /\ stars[listed[i]].age = 50
                    /\ stars[listed[i]].metallicity = 0) => listed[i] \in returned
           /\ heap' = heap]_vars

\* A star of mass 1.2 is returned after one at the metallicity limit.
C16_Witness ==
  /\ outcome.op = "get_habitable_stars"
  /\ Len(stars) = 2
  /\ stars[1].metallicity = -5
  /\ stars[2].mass = 12
  /\ outcome.value = <<1, 2>>

\* C17: get_stars_in_region(center, radius) returns exactly the stars of
\* galaxy.stars whose distance from the center is at most radius, a star
\* at exactly that distance included, in the order of galaxy.stars; the
\* result is empty for a negative radius.
C17_StarsInRegion ==
  outcome.op = "get_stars_in_region" =>
    LET center == outcome.args.center
        radius == outcome.args.radius
        Within(s) ==
          /\ radius >= 0
          /\ (center[1] - stars[s].x) ^ 2 + (center[2] - stars[s].y) ^ 2
             + (center[3] - stars[s].z) ^ 2 <= radius ^ 2
    IN  /\ outcome.status = "ok"
        /\ outcome.value = SelectSeq(galaxies[outcome.args.galaxy].stars, Within)
        /\ radius < 0 => outcome.value = <<>>

\* The first star is at distance 5 = radius from the center, the second
\* farther away.
C17_Witness ==
  /\ outcome.op = "get_stars_in_region"
  /\ outcome.args.center = <<0, 0, 0>> /\ outcome.args.radius = 5
  /\ Len(galaxies[1].stars) = 2
  /\ <<stars[1].x, stars[1].y, stars[1].z>> = <<3, 4, 0>>
  /\ <<stars[2].x, stars[2].y, stars[2].z>> = <<3, 4, 1>>
  /\ outcome.value = <<1>>

StarScalars ==
  {"mass", "radius", "age", "luminosity", "temperature", "metallicity",
   "activity", "x", "y", "z"}
PlanetScalars ==
  {"mass", "radius", "age", "orbital_distance", "atmosphere", "eccentricity",
   "inclination", "albedo", "orbital_period"}

\* C18: add_planet(star, planet) makes the planet the last element of
\* star.planets, keeping the earlier elements in order, sets planet.star
\* to the star, and changes nothing else: no scalar field of the star or
\* the planet, no other object.
C18_AddPlanetFrame ==
  [][outcome'.op = "add_planet" =>
       LET s == outcome'.args.star
           p == outcome'.args.planet
       IN  /\ Len(stars'[s].planets) = Len(stars[s].planets) + 1
           /\ stars'[s].planets[Len(stars'[s].planets)] = p
           /\ SubSeq(stars'[s].planets, 1, Len(stars[s].planets)) = stars[s].planets
           /\ planets'[p].star = s
           /\ \A f \in StarScalars : stars'[s][f] = stars[s][f]
           /\ \A f \in PlanetScalars : planets'[p][f] = planets[p][f]
           /\ Len(stars') = Len(stars) /\ Len(planets') = Len(planets)
           /\ \A t \in 1..Len(stars) : t # s => stars'[t] = stars[t]
           /\ \A q \in 1..Len(planets) : q # p => planets'[q] = planets[q]
           /\ galaxies' = galaxies]_vars

\* A planet was added to a star that already lists another planet.
C18_Witness ==
  /\ outcome.op = "add_planet"
  /\ Len(stars[outcome.args.star].planets) = 2
  /\ stars[outcome.args.star].planets[1] # outcome.args.planet
  /\ stars[outcome.args.star].planets[2] = outcome.args.planet
  /\ planets[outcome.args.planet].star = outcome.args.star

\* No planet is in the planets lists of two different stars.
Exclusive ==
  \A s, t \in 1..Len(stars) :
    s # t => \A i \in 1..Len(stars[s].planets), j \in 1..Len(stars[t].planets) :
               stars[s].planets[i] # stars[t].planets[j]

\* C19: a star exclusively owns the membership of its listed planets: an
\* add_planet call never makes a planet listed by two different stars.
C19_ExclusiveMembership ==
  [][(outcome'.op = "add_planet" /\ Exclusive) => Exclusive']_vars

IsPrefix(s, t) == Len(s) <= Len(t) /\ SubSeq(t, 1, Len(s)) = s

\* C20: the planets list of a star and the stars list of a galaxy are
\* append-only: over every step of every operation the old content is a
\* prefix of the new content (and so of the content at every later moment).
C20_AppendOnly ==
  [][/\ Len(stars) <= Len(stars') /\ Len(galaxies) <= Len(galaxies')
     /\ \A s \in 1..Len(stars) : IsPrefix(stars[s].planets, stars'[s].planets)
     /\ \A g \in 1..Len(galaxies) : IsPrefix(galaxies[g].stars, galaxies'[g].stars)]_vars

\* A galaxy has received its second star.
C20_Witness ==
  /\ outcome.op = "add_star"
  /\ Len(galaxies[outcome.args.galaxy].stars) = 2

\* The operations that only read.
ReadOnly ==
  Calculators \cup {"get_habitable_stars", "get_stars_in_region",
                    "estimate_habitable_zone", "_calculate_greenhouse_effect"}

\* C21: apart from add_planet and add_star, no operation, whether it
\* returns or raises, changes any field of a Star, Planet or Galaxy (the
\* atmosphere mapping is a field of the planet; the coefficient table is a
\* definition, written by no operation).
C21_ReadOnly ==
  [][outcome'.op \in ReadOnly => heap' = heap]_vars

\* A calculator has failed while a star lists a planet and a galaxy a star.
C21_Witness ==
  /\ outcome.op = "calculate_planet_temperature"
  /\ outcome.status = "PhysicsError"
  /\ \E s \in 1..Len(stars) : stars[s].planets # <<>>
  /\ \E g \in 1..Len(galaxies) : galaxies[g].stars # <<>>

\* The stars that agree with star on temperature, luminosity, age and
\* activity, whatever their mass, radius, metallicity, planets and
\* coordinates.
Twins(star) ==
  {[star EXCEPT !.mass = m, !.radius = r, !.metallicity = fe,
                !.planets = ps, !.x = c[1], !.y = c[2], !.z = c[3]] :
     m \in {1, 10, 25}, r \in {1, 10}, fe \in {-5, 0, 5},
     ps \in {<<>>, <<1>>}, c \in {<<0, 0, 0>>, <<3, 4, 1>>}}

\* C22: the outcome of calculate_habitable_zone depends only on the star's
\* temperature, luminosity, age and activity: every star that agrees with
\* the star of the call on these four gets the same outcome (the same
\* mapping, or a PhysicsError too), and so does a repeated call.
C22_FourFieldsOnly ==
  outcome.op = "calculate_habitable_zone" =>
    \A twin \in Twins(stars[outcome.args.star]) :
      /\ calculate_habitable_zone(twin).status = outcome.status
      /\ outcome.status = "ok" => calculate_habitable_zone(twin).value = outcome.value

\* An old, active and bright star got its zone.
C22_Witness ==
  /\ outcome.op = "calculate_habitable_zone"
  /\ outcome.status = "ok"
  /\ stars[outcome.args.star].age = 100
  /\ stars[outcome.args.star].activity = 5
  /\ stars[outcome.args.star].luminosity = 20
  /\ stars[outcome.args.star].temperature = 2780

\* C23: calculate_orbital_position is periodic in time with period
\* orbital_period: the call at time + orbital_period has the outcome of
\* the call at time (the same position; with orbital_period = 0 the same
\* ZeroDivisionError).
C23_Periodic ==
  outcome.op = "calculate_orbital_position" =>
    LET planet == planets[outcome.args.planet]
        later == calculate_orbital_position(
                   planet, outcome.args.time + planet.orbital_period)
    IN  later.status = outcome.status /\ later.value = outcome.value

\* A quarter of the way round an inclined circular orbit.
C23_Witness ==
  /\ outcome.op = "calculate_orbital_position"
  /\ outcome.status = "ok"
  /\ outcome.args.time = 1
  /\ planets[outcome.args.planet].orbital_period = 4
  /\ planets[outcome.args.planet].inclination = 90
  /\ outcome.value = <<Zero, Zero, Tenths(planets[outcome.args.planet].orbital_distance)>>

\* Atmospheres without effect: empty, gases that are not in the table,
\* zero concentrations.
InertAtmospheres ==
  {<<>>, << <<"Ar", 10>> >>, << <<"CO2", 0>> >>, << <<"N2", 0>>, <<"Ar", 5>> >>}
ActiveAtmospheres ==
  {<< <<"CO2", 10>> >>, << <<"Ar", 10>>, <<"CH4", 5>> >>, << <<"O2", 10>>, <<"N2", 10>> >>}

\* The table's factor for an atmosphere, gas by gas.
TableFactor(items) ==
  RAdd(One,
    RAdd(Share(items, "CO2", Rat(3, 10)),
      RAdd(Share(items, "CH4", Rat(4, 10)),
        RAdd(Share(items, "H2O", Rat(2, 10)),
          RAdd(Share(items, "N2", Rat(5, 100)),
               Share(items, "O2", Rat(5, 100)))))))

TemperatureReturned ==
  outcome.op = "calculate_planet_temperature" /\ outcome.status = "ok"

\* C24: calculate_planet_temperature multiplies the bare temperature (the
\* one of the planet with an empty atmosphere) by the greenhouse factor
\* only for a non-empty atmosphere, and an atmosphere of gases outside the
\* table or of zero concentrations gives the bare temperature too.
C24_GreenhouseApplied ==
  TemperatureReturned =>
    LET planet == planets[outcome.args.planet]
        With(items) ==
          calculate_planet_temperature(
            [planet EXCEPT !.atmosphere = Dict(items)], outcome.args.star).value
        bare == With(<<>>)
    IN  /\ outcome.value = With(planet.atmosphere.items)
        /\ \A items \in InertAtmospheres : With(items) = bare
        /\ \A items \in ActiveAtmospheres :
             With(items) = IF bare.nan THEN bare
                           ELSE [bare EXCEPT !.factor = TableFactor(items)]
        /\ ~bare.nan => bare.factor = One

\* A planet with a CO2 atmosphere is 1.3 times as warm as without.
C24_Witness ==
  /\ TemperatureReturned
  /\ planets[outcome.args.planet].atmosphere.items = << <<"CO2", 10>> >>
  /\ ~outcome.value.nan
  /\ outcome.value.factor = Rat(13, 10)

\* Planet p is in the planets list of star s.
ListedUnder(p, s) == \E i \in 1..Len(stars[s].planets) : stars[s].planets[i] = p

\* C25: every planet listed in s.planets has star = s, so that
\* calculate_orbital_stability and calculate_orbital_period never raise
\* the missing-star PhysicsError for a planet that a star lists.
C25_BackReference ==
  /\ \A s \in 1..Len(stars), p \in 1..Len(planets) :
       ListedUnder(p, s) => planets[p].star = s
  /\ (/\ outcome.op \in {"calculate_orbital_stability", "calculate_orbital_period"}
      /\ outcome.status = "PhysicsError")
     => \A s \in 1..Len(stars) : ~ListedUnder(outcome.args.planet, s)

\* The checks as <<violated, message>>, in the order claimed.
BaseChecks(a) ==
  << <<a.mass <= 0, "Mass must be positive">>,
     <<a.radius <= 0, "Radius must be positive">>,
     <<a.age < 0, "Age cannot be negative">> >>
StarChecks(a) ==
  BaseChecks(a) \o
  << <<a.luminosity <= 0, "Luminosity must be positive">>,
     <<a.temperature <= 0, "Temperature must be positive">>,
     <<a.activity < 0 \/ a.activity > 10, "Activity must be between 0 and 1">> >>
PlanetChecks(a) ==
  BaseChecks(a) \o
  << <<a.orbital_distance <= 0, "Orbital distance must be positive">>,
     <<a.eccentricity < 0 \/ a.eccentricity >= 10,
       "Eccentricity must be between 0 and 1">>,
     <<~a.atmosphere.isdict, "Atmosphere must be a dictionary of compositions">> >>

Violated(checks) == {i \in 1..Len(checks) : checks[i][1]}
FirstViolated(checks) ==
  checks[CHOOSE i \in Violated(checks) : \A j \in Violated(checks) : i <= j][2]

\* C26: a construction with invalid arguments fails with exactly one
\* DataValidationError, the one of the first violated check in the order
\* mass, radius, age, then luminosity, temperature, activity for a Star
\* and orbital_distance, eccentricity, atmosphere for a Planet.
C26_FirstViolatedCheck ==
  /\ outcome.op = "Star" =>
       IF Violated(StarChecks(outcome.args)) = {}
       THEN outcome.status = "ok"
       ELSE /\ outcome.status = "DataValidationError"
            /\ outcome.value = FirstViolated(StarChecks(outcome.args))
  /\ outcome.op = "Planet" =>
       IF Violated(PlanetChecks(outcome.args)) = {}
       THEN outcome.status = "ok"
       ELSE /\ outcome.status = "DataValidationError"
            /\ outcome.value = FirstViolated(PlanetChecks(outcome.args))

\* A star with a bad radius, a bad luminosity and a bad activity is
\* refused for its radius.
C26_Witness ==
  /\ outcome.op = "Star"
  /\ outcome.args.mass > 0 /\ outcome.args.radius <= 0
  /\ outcome.args.luminosity <= 0 /\ outcome.args.activity > 10
  /\ outcome.value = "Radius must be positive"

\* C27: for every valid Star the correction factors of
\* calculate_habitable_zone satisfy age_factor >= 0.54 and
\* activity_factor >= 0.8, their product is positive, and the corrected
\* classic pair keeps inner < outer, whatever the age and the activity.
C27_PositiveCorrection ==
  ZoneReturned =>
    LET star == stars[outcome.args.star]
        classic == outcome.value["classic"]
    IN  /\ ~RLess(age_factor(star), Rat(54, 100))
        /\ ~RLess(activity_factor(star), Rat(8, 10))
        /\ RLess(Zero, RMul(age_factor(star), activity_factor(star)))
        /\ classic.inner.coef = RMul(age_factor(star), activity_factor(star))
        /\ FloatLess(classic.inner, classic.outer)

\* The youngest and most active star: both factors at their minimum.
C27_Witness ==
  /\ ZoneReturned
  /\ stars[outcome.args.star].age = 0
  /\ stars[outcome.args.star].activity = 10
  /\ outcome.value["classic"].inner.coef = Rat(54 * 8, 1000)

\* The planets that differ from planet in eccentricity, radius,
\* inclination and stored orbital_period only.
SameOrbit(planet) ==
  {[planet EXCEPT !.eccentricity = e, !.radius = r, !.inclination = i,
                  !.orbital_period = t] :
     e \in {0, 5, 9}, r \in {5, 10}, i \in {0, 90}, t \in {0, 4, 3652}}

\* The planets that differ from planet in a larger orbital_distance only.
FartherOut(planet) ==
  {[planet EXCEPT !.orbital_distance = d] :
     d \in {planet.orbital_distance + 1, 2 * planet.orbital_distance, 100}
           \ 0..planet.orbital_distance}

\* The planets that differ from planet in a smaller orbital_distance only.
CloserIn(planet) ==
  {[planet EXCEPT !.orbital_distance = d] :
     d \in {planet.orbital_distance - 1, planet.orbital_distance \div 2, 1}
           \cap 1..planet.orbital_distance}

\* C28: for a fixed star and planet mass calculate_orbital_stability is
\* monotone in orbital_distance (true at a distance, true at every larger
\* one) and does not depend on the planet's eccentricity, radius,
\* inclination or stored orbital_period.
C28_MonotoneInDistance ==
  StabilityReturned =>
    LET planet == planets[outcome.args.planet]
    IN  /\ \A twin \in SameOrbit(planet) :
             calculate_orbital_stability(twin).value = outcome.value
        /\ outcome.value =>
             \A twin \in FartherOut(planet) : calculate_orbital_stability(twin).value
        /\ ~outcome.value =>
             \A twin \in CloserIn(planet) : ~calculate_orbital_stability(twin).value

\* A stable planet just outside the distance where Hill radius and Roche
\* limit meet.
C28_Witness ==
  /\ StabilityReturned
  /\ outcome.value
  /\ planets[outcome.args.planet].orbital_distance = 62
  /\ planets[outcome.args.planet].mass = 9
  /\ planets[outcome.args.planet].eccentricity = 5
  /\ stars[planets[outcome.args.planet].star].radius = 75
  /\ stars[planets[outcome.args.planet].star].mass = 1

\* The items of a JSON object are all attributes of config.
AllSet(config, items) ==
  \A i \in 1..Len(items) :
    items[i][1] \in DOMAIN config /\ config[items[i][1]] = items[i][2]

\* C30 as claimed: load_config is all-or-nothing: for a file that parses
\* as a JSON object every pair is set on CONFIG; for every other file the
\* failure is re-raised and CONFIG is unchanged; a failed load never
\* changes CONFIG.
C30_AllOrNothing ==
  [][outcome'.op = "load_config" =>
       LET file == outcome'.args.file
       IN  /\ IF file.kind = "object"
              THEN outcome'.status = "ok" /\ AllSet(CONFIG', file.items)
              ELSE outcome'.status # "ok" /\ CONFIG' = CONFIG
           /\ outcome'.status # "ok" => CONFIG' = CONFIG]_vars

\* The keys of a JSON object before its first unsettable key (all of them
\* when every key can be set).
Settable(items) ==
  LET bad == {i \in 1..Len(items) : items[i][1] \in {"__class__"}}
  IN  IF bad = {} THEN items
      ELSE SubSeq(items, 1, (CHOOSE i \in bad : \A j \in bad : i <= j) - 1)

\* C30: load_config sets every pair of a JSON object whose keys can all be
\* set, overwriting and adding attributes and leaving the others alone; a
\* file that cannot be read or is not a JSON object is re-raised with
\* CONFIG unchanged; a key that setattr refuses (__class__) is re-raised as
\* TypeError with the pairs before it set and the pairs after it not.
C30_LoadConfig ==
  [][outcome'.op = "load_config" =>
       LET file == outcome'.args.file
           done == Settable(file.items)
       IN  IF file.kind = "object"
           THEN /\ outcome'.status = IF done = file.items THEN "ok" ELSE "TypeError"
                /\ AllSet(CONFIG', done)
                /\ DOMAIN CONFIG' =
                     DOMAIN CONFIG \cup {done[i][1] : i \in 1..Len(done)}
                /\ \A k \in DOMAIN CONFIG :
                     k \notin {done[i][1] : i \in 1..Len(done)} => CONFIG'[k] = CONFIG[k]
           ELSE /\ outcome'.status \in {"OSError", "JSONDecodeError", "AttributeError"}
                /\ CONFIG' = CONFIG]_vars

\* A load has failed at its second key after setting the first.
C30_Witness ==
  /\ outcome.op = "load_config"
  /\ outcome.args.file = File("object", << <<"theme", "dark">>, <<"__class__", "dark">> >>)
  /\ outcome.status = "TypeError"
  /\ "theme" \in DOMAIN CONFIG /\ CONFIG["theme"] = "dark"

\* C29: in main, launch_gui is called at most once, and only after
\* setup_environment returned and, unless --skip-deps-check, no dependency
\* was missing; when one of the two fails launch_gui is never called and
\* the process exits with status 1; a failure to load the cached data does
\* not prevent the launch; with --no-cache the cache is not read.
C29_StartUp ==
  /\ process.launched <= 1
  /\ process.launched = 1 =>
       /\ process.setup = "returned"
       /\ process.args.skip_deps_check \/ process.deps = "ok"
       /\ process.args.skip_deps_check => process.deps = "none"
  /\ (process.setup = "failed" \/ process.deps = "missing") =>
       /\ process.launched = 0
       /\ process.pc \in {"except", "exited"}
       /\ process.pc = "exited" => process.status = "1"
  /\ (process.cache = "failed" /\ process.pc = "exited") => process.launched = 1
  /\ process.cache = "failed" => process.pc \in {"launch_gui", "except", "exited"}
  /\ process.args.no_cache => process.cache = "none"

\* The GUI was launched and closed although the cache could not be read.
C29_Witness ==
  /\ process.pc = "exited"
  /\ process.status = "0"
  /\ process.launched = 1
  /\ process.cache = "failed"
  /\ process.deps = "ok"
  /\ process.args.config = "config.json"
  /\ "theme" \in DOMAIN CONFIG

====
